---------------------------- MODULE Spec2Model ----------------------------
(***************************************************************************)
(* Starlink PNT relay: the corrected clock (sync_ntp_time and              *)
(* get_ntp_timestamp of the three programs) and the primary/fallback       *)
(* controller of the NMEA fallback bridge (main of                         *)
(* starlink_nmea_fallback.py).                                             *)
(*                                                                         *)
(* Time is the system clock in whole seconds.  Every blocking step (a      *)
(* serial read, a sleep, a subprocess) lasts a duration drawn from Elapse. *)
(* Offsets are whole seconds.                                              *)
(***************************************************************************)
EXTENDS Integers, Sequences, FiniteSets, TLC

VARIABLES
    variant,             \* which program runs: "mavlink", "fallback" or "udp"
    now,                 \* time.time()
    ntp_offset,          \* global ntp_offset
    ntp_last_sync,       \* global ntp_last_sync
    ntp_available,       \* global ntp_available
    pc,                  \* position of main() of the fallback bridge
    last_gps_data_time,  \* global last_gps_data_time
    fallback_active,     \* global fallback_active
    last_ntp_sync_time,  \* local last_ntp_sync_time of main()
    sync_log,            \* history: the calls of sync_ntp_time() so far
    call,                \* history: the clock call made by the last step
    ev,                  \* history: what the last step of main() read and wrote
    silence,             \* history: the current run of reads without a recognized line
    pnt,                 \* the dict get_starlink_pnt() returned last
    total_sent,          \* global total_sent
    emitted,             \* what the last encoder step computed and sent
    proc                 \* the process: its status and its open transport handles

vars == << variant, now, ntp_offset, ntp_last_sync, ntp_available, pc,
           last_gps_data_time, fallback_active, last_ntp_sync_time,
           sync_log, call, ev, silence, pnt, total_sent, emitted, proc >>

clockVars == << ntp_offset, ntp_last_sync, ntp_available >>
failoverVars == << pc, last_gps_data_time, fallback_active, last_ntp_sync_time, ev, silence >>
encoderVars == << pnt, total_sent, emitted >>

-----------------------------------------------------------------------------
(* Program constants *)

NTP_UPDATE_INTERVAL == 60
LOCK_LOSS_THRESHOLD == 120
USE_NTP == TRUE

(* Bounds of the model *)

\* time.time() when the process starts (seconds since the Unix epoch)
StartTime == 1700000000
\* the model follows the fallback bridge for MaxTicks short waits
MaxTicks == 8
\* and the clock alone for ClockTicks short waits
ClockTicks == 4

ShortWait == NTP_UPDATE_INTERVAL \div 3
Horizon == MaxTicks * ShortWait
Elapse == {0, ShortWait, NTP_UPDATE_INTERVAL}
Variants == {"mavlink", "fallback", "udp"}
\* the time of an event that has not happened
Never == 0 - 1
\* the process, where it is not followed
NoProcess ==
    [status |-> "none", handles |-> {}, pipe_path |-> FALSE, cleanups |-> 0,
     signal_at |-> "none", exit_by |-> "none"]

-----------------------------------------------------------------------------
(* The external time tools: what subprocess.run() gives back.              *)
(* stdout is a sequence of whitespace-separated tokens:                    *)
(*   word   text that is no number and does not end in ")"                 *)
(*   paren  text ending in ")", such as the "(-0500)" of sntp              *)
(*   num    a signed decimal, v its value                                  *)
(*   pm     the text "+/-"                                                 *)
(*   offset the word "offset" of an ntpdate line                           *)

Word == [k |-> "word", v |-> 0]
Paren == [k |-> "paren", v |-> 0]
Pm == [k |-> "pm", v |-> 0]
OffsetWord == [k |-> "offset", v |-> 0]
Num(x) == [k |-> "num", v |-> x]

\* "2025-12-29 09:20:42.513019 (-0500) -0.000077 +/- 0.002686 192.168.100.1 s1 no-leap"
SntpLine(o) == << Word, Word, Paren, Num(o), Pm, Num(0), Word >>
\* "+0.000077 +/- 0.002686 192.168.100.1": the offset is the first field
BareLine(o) == << Num(o), Pm, Num(0), Word >>
\* "server 192.168.100.1, stratum 1, offset 0.000077, delay 0.02"
NtpdateLine(o) == << Word, Word, Word, Num(1), OffsetWord, Num(o), Word, Num(0) >>
\* output without the expected pattern
NoPattern == << Word, Word >>

\* status: "done" (the tool ran), "notfound" (FileNotFoundError),
\* "timeout" (subprocess.TimeoutExpired), "oserror" (any other exception)
Raised(s) == [status |-> s, returncode |-> 1, stdout |-> << >>]
Ran(rc, out) == [status |-> "done", returncode |-> rc, stdout |-> out]

\* what the first tool (sntp) may give back
ToolResults ==
    {Raised("notfound"), Raised("timeout"), Raised("oserror"),
     Ran(1, << >>), Ran(0, << >>), Ran(0, NoPattern),
     Ran(0, SntpLine(3)), Ran(0, BareLine(3))}
\* what the second tool (ntpdig, ntpdate) may give back
SecondToolResults ==
    {Raised("notfound"), Raised("timeout"), Ran(1, << >>), Ran(0, NoPattern),
     Ran(0, SntpLine(-2)), Ran(0, NtpdateLine(-2))}
\* what the probe (nc) may give back
ProbeResults == {Raised("notfound"), Raised("timeout"), Ran(0, << >>), Ran(1, << >>)}
\* a tool that the call did not run
NotRun == Raised("notrun")

NoMatch == [found |-> FALSE, value |-> 0]
Match(x) == [found |-> TRUE, value |-> x]

\* the least i with hits[i]; 0 if there is none
RECURSIVE FirstHit(_, _)
FirstHit(hits, i) ==
    IF i > Len(hits) THEN 0 ELSE IF hits[i] THEN i ELSE FirstHit(hits, i + 1)

\* re.search(r'\)\s+([+-]?\d+\.?\d*)\s+\+/-', stdout)
SntpPattern(out) ==
    LET hits == [i \in 1..(Len(out) - 2) |->
                    out[i].k = "paren" /\ out[i + 1].k = "num" /\ out[i + 2].k = "pm"]
        i == FirstHit(hits, 1)
    IN  IF i = 0 THEN NoMatch ELSE Match(out[i + 1].v)

\* parts = stdout.strip().split(); float(parts[0]), ValueError caught
FirstField(out) ==
    IF Len(out) > 0 /\ out[1].k = "num" THEN Match(out[1].v) ELSE NoMatch

\* re.search(r'offset\s+([+-]?\d+\.?\d*)', line) on the lines holding 'offset'
NtpdatePattern(out) ==
    LET hits == [i \in 1..(Len(out) - 1) |->
                    out[i].k = "offset" /\ out[i + 1].k = "num"]
        i == FirstHit(hits, 1)
    IN  IF i = 0 THEN NoMatch ELSE Match(out[i + 1].v)

\* the pattern each program applies to the output of its first tool
FirstToolPattern(v, out) ==
    IF v = "udp" THEN FirstField(out) ELSE SntpPattern(out)

\* if result.returncode == 0 and result.stdout: ...
HasOutput(r) == r.status = "done" /\ r.returncode = 0 /\ r.stdout # << >>

-----------------------------------------------------------------------------
(* CorrectedClock *)

Clock == [ntp_offset |-> ntp_offset, ntp_last_sync |-> ntp_last_sync,
          ntp_available |-> ntp_available]

\* check_ntp_server(): nc ran and exited 0; any exception gives False
check_ntp_server(probe) == probe.status = "done" /\ probe.returncode = 0

\* current_time - ntp_last_sync < NTP_UPDATE_INTERVAL
RateLimited(c, t) == t - c.ntp_last_sync < NTP_UPDATE_INTERVAL

MarkUnavailable_Keeps(c) == c

\* ntp_available = False
MarkUnavailable(c) == [c EXCEPT !.ntp_available = FALSE]

\* ntp_offset = float(...); ntp_last_sync = current_time; ntp_available = True
StoreOffset(c, off, t) ==
    [ntp_offset |-> off, ntp_last_sync |-> t, ntp_available |-> TRUE]

\* What a call gives back: the clock after it and how it ended:
\*   "disabled"     USE_NTP is off
\*   "limited"      returned at the rate limit, nothing called
\*   "unreachable"  the probe failed
\*   "synced"       an offset was parsed and stored
\*   "failed"       probe passed, no offset, fell through to the last lines
\*   "notools"      probe passed, no offset, returned from the inner handler
Result(c, how) == [clock |-> c, how |-> how]

\* mavlink: for ntp_cmd in ['sntp', 'ntpdig'], the first parsed offset wins;
\* FileNotFoundError continues, any other exception passes on to the next tool
query_mavlink(c, t, r1, r2) ==
    LET m1 == IF HasOutput(r1) THEN SntpPattern(r1.stdout) ELSE NoMatch
        m2 == IF HasOutput(r2) THEN SntpPattern(r2.stdout) ELSE NoMatch
    IN  IF m1.found THEN Result(StoreOffset(c, m1.value, t), "synced")
        ELSE IF m2.found THEN Result(StoreOffset(c, m2.value, t), "synced")
        ELSE Result(MarkUnavailable(c), "failed")

\* fallback bridge and udp: sntp, and ntpdate only when sntp is not found;
\* when ntpdate is not found either, the handler returns False at once
query_sntp_ntpdate(v, c, t, r1, r2) ==
    LET m1 == IF HasOutput(r1) THEN FirstToolPattern(v, r1.stdout) ELSE NoMatch
        m2 == IF HasOutput(r2) THEN NtpdatePattern(r2.stdout) ELSE NoMatch
    IN  IF r1.status = "notfound"
        THEN IF r2.status = "notfound" THEN Result(c, "notools")
             ELSE IF m2.found THEN Result(StoreOffset(c, m2.value, t), "synced")
             ELSE Result(MarkUnavailable(c), "failed")
        ELSE IF m1.found THEN Result(StoreOffset(c, m1.value, t), "synced")
        ELSE Result(MarkUnavailable(c), "failed")

query(v, c, t, r1, r2) ==
    IF v = "mavlink" THEN query_mavlink(c, t, r1, r2)
    ELSE query_sntp_ntpdate(v, c, t, r1, r2)

\* sync_ntp_time() of program v, called at time t
sync_ntp_time(v, c, t, probe, r1, r2) ==
    IF ~USE_NTP THEN Result(c, "disabled")
    ELSE IF RateLimited(c, t) THEN Result(c, "limited")
    ELSE IF ~check_ntp_server(probe) THEN Result(MarkUnavailable(c), "unreachable")
    ELSE query(v, c, t, r1, r2)

\* the second tool runs when the first gave no offset (mavlink) or was not
\* found (fallback bridge, udp)
SecondRuns(v, r1) ==
    IF v = "mavlink"
    THEN IF HasOutput(r1) /\ SntpPattern(r1.stdout).found THEN {NotRun} ELSE SecondToolResults
    ELSE IF r1.status = "notfound" THEN SecondToolResults ELSE {NotRun}

\* the results << probe, first tool, second tool >> a call at time t may meet
SyncInputs(v, c, t) ==
    IF ~USE_NTP \/ RateLimited(c, t)
    THEN {<< NotRun, NotRun, NotRun >>}
    ELSE {<< p, NotRun, NotRun >> : p \in {q \in ProbeResults : ~check_ntp_server(q)}}
           \cup {<< Ran(0, << >>), x[1], x[2] >> :
                   x \in UNION {{<< r1, r2 >> : r2 \in SecondRuns(v, r1)} : r1 \in ToolResults}}

get_ntp_timestamp_AlwaysAdds(t, c) == t + c.ntp_offset

\* get_ntp_timestamp(): time.time() + ntp_offset if ntp_available else time.time()
get_ntp_timestamp(t, c) == IF c.ntp_available THEN t + c.ntp_offset ELSE t


-----------------------------------------------------------------------------
(* History of the calls of sync_ntp_time() and get_ntp_timestamp() *)

\* a call that went past the rate limit reached the probe (an external tool)
ReachedExternal(how) == how \in {"unreachable", "synced", "failed", "notools"}

\* sync_log: what is remembered of the calls of sync_ntp_time() so far
\*   last_at, last_how   the most recent call: its time and how it ended
\*   last_ext_at         the most recent call that reached an external tool
\*   completed           how the most recent call past the rate limit ended
\*   probe_failed        a probe failed and no sync has succeeded since
NoSync ==
    [last_at |-> Never, last_how |-> "none", last_ext_at |-> Never,
     completed |-> "none", probe_failed |-> FALSE]

Logged(log, t, how) ==
    [last_at |-> t, last_how |-> how,
     last_ext_at |-> IF ReachedExternal(how) THEN t ELSE log.last_ext_at,
     completed |-> IF how = "synced" THEN "ok"
                   ELSE IF ReachedExternal(how) THEN "fail"
                   ELSE log.completed,
     probe_failed |-> IF how = "unreachable" THEN TRUE
                      ELSE IF how = "synced" THEN FALSE
                      ELSE log.probe_failed]

\* call: the call made by the last step, if it made one
\*   op        "sync", "stamp" or "none"
\*   how       how the sync ended
\*   before    the clock the step found
\*   gap       time since the previous call of sync_ntp_time(), or Never
\*   prev_how  how that previous call ended
\*   ext_gap   for a sync that reached an external tool: time since the
\*             previous call that reached one, or Never
\*   sys, val  the system time of a stamp and the value it returned
\*   after_probe_fail  the stamp was taken with probe_failed set
Idle(c) ==
    [op |-> "none", how |-> "none", before |-> c,
     gap |-> Never, prev_how |-> "none", ext_gap |-> Never,
     sys |-> 0, val |-> 0, after_probe_fail |-> FALSE]

SyncCall(log, c, t, how) ==
    [Idle(c) EXCEPT
        !.op = "sync", !.how = how,
        !.gap = IF log.last_at = Never THEN Never ELSE t - log.last_at,
        !.prev_how = log.last_how,
        !.ext_gap = IF ReachedExternal(how) /\ log.last_ext_at # Never
                    THEN t - log.last_ext_at ELSE Never]

StampCall(log, c, t, value) ==
    [Idle(c) EXCEPT !.op = "stamp", !.sys = t, !.val = value,
                    !.after_probe_fail = log.probe_failed]

\* the effect of one call of sync_ntp_time() on the globals and the history
DoSync(v, t, in) ==
    LET r == sync_ntp_time(v, Clock, t, in[1], in[2], in[3])
    IN  /\ ntp_offset' = r.clock.ntp_offset
        /\ ntp_last_sync' = r.clock.ntp_last_sync
        /\ ntp_available' = r.clock.ntp_available
        /\ sync_log' = Logged(sync_log, t, r.how)
        /\ call' = SyncCall(sync_log, Clock, t, r.how)

-----------------------------------------------------------------------------
(* SpecClock: the clock of each program under any sequence of calls *)

InitClock ==
    /\ variant \in Variants
    /\ now = StartTime
    /\ ntp_offset = 0
    /\ ntp_last_sync = 0
    /\ ntp_available = FALSE
    /\ sync_log = NoSync
    /\ call = Idle(Clock)
    /\ pc = "none"
    /\ last_gps_data_time = 0
    /\ fallback_active = FALSE
    /\ last_ntp_sync_time = 0
    /\ ev = << >>
    /\ silence = << >>
    /\ pnt = << >>
    /\ total_sent = 0
    /\ emitted = << >>
    /\ proc = NoProcess

\* time passes
ClockTick ==
    /\ \E d \in Elapse \ {0} :
          /\ now + d <= StartTime + ClockTicks * ShortWait
          /\ now' = now + d
    /\ call' = Idle(Clock)
    /\ UNCHANGED << proc, encoderVars, variant, clockVars, sync_log, failoverVars >>

\* a caller calls sync_ntp_time()
CallSync ==
    /\ \E in \in SyncInputs(variant, Clock, now) : DoSync(variant, now, in)
    /\ UNCHANGED << proc, encoderVars, variant, now, failoverVars >>

\* the loop of main() of the mavlink and udp programs:
\*   if USE_NTP and current_time - ntp_last_sync >= NTP_UPDATE_INTERVAL:
\*       sync_ntp_time(); ntp_last_sync = current_time
MainLoopSync ==
    /\ variant \in {"mavlink", "udp"}
    /\ USE_NTP /\ now - ntp_last_sync >= NTP_UPDATE_INTERVAL
    /\ \E in \in SyncInputs(variant, Clock, now) :
          LET r == sync_ntp_time(variant, Clock, now, in[1], in[2], in[3])
          IN  /\ ntp_offset' = r.clock.ntp_offset
              /\ ntp_available' = r.clock.ntp_available
              /\ ntp_last_sync' = now
              /\ sync_log' = Logged(sync_log, now, r.how)
              /\ call' = SyncCall(sync_log, Clock, now, r.how)
    /\ UNCHANGED << proc, encoderVars, variant, now, failoverVars >>

\* a caller samples get_ntp_timestamp()
CallStamp ==
    /\ call' = StampCall(sync_log, Clock, now, get_ntp_timestamp(now, Clock))
    /\ UNCHANGED << proc, encoderVars, variant, now, clockVars, sync_log, failoverVars >>

NextClock == ClockTick \/ CallSync \/ MainLoopSync \/ CallStamp

SpecClock == InitClock /\ [][NextClock]_vars

-----------------------------------------------------------------------------
(* The fallback bridge: the local GPS device, the pipe and the batch *)

CR == "CR"
LF == "LF"
\* a byte that is not ASCII
Noise == "0xFF"
WhiteSpace == {" ", CR, LF}

\* what ser.readline() may give back: bytes up to a newline, or nothing
\* when the read timed out
RawLines ==
    { << >>,
      << "$", "G", "P", "A", CR, LF >>,
      << "$", "G", "N", "A", CR, LF >>,
      << "$", "G", "L", "A", CR, LF >>,
      << " ", "$", "G", "P", "A", CR, LF >>,
      << "$", "G", Noise, "P", CR, LF >> }

\* bytes.decode('ascii', errors='ignore'): bytes that are not ASCII are dropped
Decode(raw) == SelectSeq(raw, LAMBDA b : b # Noise)

RECURSIVE LStrip(_)
LStrip(x) == IF x # << >> /\ Head(x) \in WhiteSpace THEN LStrip(Tail(x)) ELSE x

RECURSIVE RStrip(_)
RStrip(x) ==
    IF x # << >> /\ x[Len(x)] \in WhiteSpace THEN RStrip(SubSeq(x, 1, Len(x) - 1)) ELSE x

\* str.strip()
Strip(x) == RStrip(LStrip(x))

\* str.startswith(prefix)
StartsWith(x, prefix) == Len(x) >= Len(prefix) /\ SubSeq(x, 1, Len(prefix)) = prefix

IsGpsLine_OnlyGP(line) == StartsWith(line, << "$", "G", "P" >>)

\* line.startswith('$GP') or line.startswith('$GN')
IsGpsLine(line) ==
    StartsWith(line, << "$", "G", "P" >>) \/ StartsWith(line, << "$", "G", "N" >>)

\* the silence test passing whatever the time of the last recognized line
LockLost_Always(t, last) == t >= last

LockLost_InMinutes(t, last) == t - last > LOCK_LOSS_THRESHOLD * 60

\* now - last_gps_data_time > LOCK_LOSS_THRESHOLD
LockLost(t, last) == t - last > LOCK_LOSS_THRESHOLD

HandleSerialError_Keeps(active) == active

\* except serial.SerialException: if not fallback_active: fallback_active = True
HandleSerialError(active) == IF ~active THEN TRUE ELSE active

\* what is handed to the pipe: a relayed line or a synthesized sentence
Relayed(text) == [src |-> "gps", kind |-> "line", text |-> text, time |-> 0]
Synthesized(kind, t) == [src |-> "starlink", kind |-> kind, text |-> << >>, time |-> t]

SentenceKinds == << "GGA", "RMC", "VTG", "GLL", "GSA", "ZDA" >>

\* get_starlink_sentences(): six sentences, each with its own sample of the
\* clock: get_ntp_timestamp() if ntp_available, else the system time
get_starlink_sentences(t, c) ==
    [i \in 1..Len(SentenceKinds) |->
        Synthesized(SentenceKinds[i], IF c.ntp_available THEN get_ntp_timestamp(t, c) ELSE t)]

\* how the writes of one batch to the pipe end: "ok", "broken"
\* (BrokenPipeError) or "error" (any other exception); all are caught
WritePatterns ==
    { [i \in 1..Len(SentenceKinds) |-> "ok"],
      [i \in 1..Len(SentenceKinds) |-> "broken"],
      [i \in 1..Len(SentenceKinds) |-> IF i = 1 THEN "error" ELSE "ok"] }

\* for nmea in sentences: with open(GPS_PIPE, 'w') as pipe: pipe.write(nmea + '\r\n')
WriteBatch(batch, pattern) ==
    [i \in 1..Len(batch) |-> [data |-> batch[i], ok |-> pattern[i] = "ok"]]

\* ev: what the last step of main() did
\*   op            "startup", "outer", "inner", "devcycle" or "none"
\*   line          the line read, decoded and stripped
\*   read_at       the time taken after the read, or Never
\*   serial_error  serial.SerialException was raised (open or read)
\*   was_fallback  fallback_active when the step began
\*   timer_set     the step assigned last_gps_data_time
\*   writes        what the step handed to the pipe, in order
\*   path_present  os.path.exists(PRIMARY_GPS_DEVICE) at the end of a cycle
\*   gen_raised    get_starlink_sentences() raised
NoEvent ==
    [op |-> "none", line |-> << >>, read_at |-> Never, serial_error |-> FALSE,
     was_fallback |-> FALSE, timer_set |-> FALSE, writes |-> << >>,
     path_present |-> FALSE, gen_raised |-> FALSE]

Event(op) == [NoEvent EXCEPT !.op = op, !.was_fallback = fallback_active]

\* silence: the current run of reads without a recognized line
\*   since        when it began: the last recognized line, or process start
\*   transitions  PRIMARY -> FALLBACK transitions taken in it (at most 3 counted)
\*   device_error a device I/O error occurred in it
Quiet(t) == [since |-> t, transitions |-> 0, device_error |-> FALSE]

Count(sil, before, after) ==
    IF ~before /\ after /\ sil.transitions < 3
    THEN [sil EXCEPT !.transitions = @ + 1] ELSE sil

-----------------------------------------------------------------------------
(* Spec: main() of the fallback bridge *)

Init ==
    /\ variant = "fallback"
    /\ now = StartTime
    /\ ntp_offset = 0
    /\ ntp_last_sync = 0
    /\ ntp_available = FALSE
    /\ sync_log = NoSync
    /\ call = Idle(Clock)
    /\ pc = "start"
    /\ last_gps_data_time = 0
    /\ fallback_active = FALSE
    /\ last_ntp_sync_time = 0
    /\ ev = NoEvent
    /\ silence = Quiet(StartTime)
    /\ pnt = << >>
    /\ total_sent = 0
    /\ emitted = << >>
    /\ proc = NoProcess

\* main() up to the loop: sync_ntp_time(); last_ntp_sync_time = time.time()
Startup ==
    /\ pc = "start"
    /\ \E in \in SyncInputs(variant, Clock, now) : DoSync(variant, now, in)
    /\ last_ntp_sync_time' = now
    /\ pc' = "outer"
    /\ ev' = Event("startup")
    /\ UNCHANGED << proc, encoderVars, variant, now, last_gps_data_time, fallback_active, silence >>

\* with serial.Serial(...) as ser: opened, or SerialException and the handler
OpenSerial(t) ==
    \E opened \in BOOLEAN :
        IF opened
        THEN /\ pc' = "inner"
             /\ ev' = Event("outer")
             /\ UNCHANGED << fallback_active, silence >>
        ELSE /\ pc' = "device_fallback"
             /\ fallback_active' = HandleSerialError(fallback_active)
             /\ ev' = [Event("outer") EXCEPT !.serial_error = TRUE]
             /\ silence' = [Count(silence, fallback_active, HandleSerialError(fallback_active))
                              EXCEPT !.device_error = TRUE]

\* the top of the outer loop: the periodic sync, then the device is opened
OuterTop ==
    /\ pc = "outer"
    /\ \E d \in Elapse :
          LET t == now + d IN
          /\ t <= StartTime + Horizon
          /\ now' = t
          /\ \/ /\ USE_NTP /\ t - last_ntp_sync_time >= NTP_UPDATE_INTERVAL
                /\ \E in \in SyncInputs(variant, Clock, t) : DoSync(variant, t, in)
                /\ last_ntp_sync_time' = t
             \/ /\ ~(USE_NTP /\ t - last_ntp_sync_time >= NTP_UPDATE_INTERVAL)
                /\ call' = Idle(Clock)
                /\ UNCHANGED << clockVars, sync_log, last_ntp_sync_time >>
          /\ OpenSerial(t)
    /\ UNCHANGED << proc, encoderVars, variant, last_gps_data_time >>

\* one pass of the inner loop whose readline() raises SerialException
InnerSerialError ==
    /\ pc = "inner"
    /\ \E d \in Elapse :
          /\ now + d <= StartTime + Horizon
          /\ now' = now + d
          /\ ev' = [Event("inner") EXCEPT !.serial_error = TRUE]
    /\ fallback_active' = HandleSerialError(fallback_active)
    /\ silence' = [Count(silence, fallback_active, HandleSerialError(fallback_active))
                     EXCEPT !.device_error = TRUE]
    /\ pc' = "device_fallback"
    /\ call' = Idle(Clock)
    /\ UNCHANGED << proc, encoderVars, variant, clockVars, sync_log, last_gps_data_time, last_ntp_sync_time >>

\* one pass of the inner loop that reads a line (or times out):
\* relay of a recognized line, lock-loss check, fallback batch or sleep
InnerIteration ==
    /\ pc = "inner"
    /\ \E d \in Elapse, raw \in RawLines, relay_ok \in BOOLEAN :
          LET t == now + d
              line == Strip(Decode(raw))
              rec == IsGpsLine(line)
              last == IF rec THEN t ELSE last_gps_data_time
              resumed == IF rec THEN FALSE ELSE fallback_active
              active == IF ~resumed /\ LockLost(t, last) THEN TRUE ELSE resumed
              relay == IF rec
                       THEN << [data |-> Relayed(line \o << CR, LF >>), ok |-> relay_ok] >>
                       ELSE << >>
              sil == Count(IF rec THEN Quiet(t) ELSE silence, resumed, active)
              e == [Event("inner") EXCEPT !.line = line, !.read_at = t, !.timer_set = rec]
          IN
          /\ t <= StartTime + Horizon
          /\ (~rec => relay_ok)
          /\ now' = t
          /\ last_gps_data_time' = last
          /\ fallback_active' = active
          /\ silence' = sil
          /\ IF active
             THEN \/ \E pattern \in WritePatterns :
                        /\ ev' = [e EXCEPT !.writes = relay \o
                                     WriteBatch(get_starlink_sentences(t, Clock), pattern)]
                        /\ pc' = "inner"
                  \/ /\ ev' = [e EXCEPT !.writes = relay, !.gen_raised = TRUE]
                     /\ pc' = "outer"
             ELSE /\ ev' = [e EXCEPT !.writes = relay]
                  /\ pc' = "inner"
    /\ call' = Idle(Clock)
    /\ UNCHANGED << proc, encoderVars, variant, clockVars, sync_log, last_ntp_sync_time >>

\* one cycle of the loop of the SerialException handler: a batch, a sleep,
\* then os.path.exists(PRIMARY_GPS_DEVICE)
DeviceFallbackCycle ==
    /\ pc = "device_fallback"
    /\ fallback_active
    /\ \E d \in Elapse, pattern \in WritePatterns, present \in BOOLEAN :
          /\ now + d <= StartTime + Horizon
          /\ now' = now + d
          /\ ev' = [Event("devcycle") EXCEPT
                       !.writes = WriteBatch(get_starlink_sentences(now, Clock), pattern),
                       !.path_present = present]
          /\ fallback_active' = ~present
          /\ pc' = IF present THEN "outer" ELSE "device_fallback"
    /\ call' = Idle(Clock)
    /\ UNCHANGED << proc, encoderVars, variant, clockVars, sync_log, last_gps_data_time,
                    last_ntp_sync_time, silence >>

\* get_starlink_sentences() raises inside the SerialException handler: no
\* handler catches it and main() ends
DeviceFallbackRaises ==
    /\ pc = "device_fallback"
    /\ fallback_active
    /\ pc' = "crashed"
    /\ ev' = [Event("devcycle") EXCEPT !.gen_raised = TRUE]
    /\ call' = Idle(Clock)
    /\ UNCHANGED << proc, encoderVars, variant, now, clockVars, sync_log, last_gps_data_time,
                    fallback_active, last_ntp_sync_time, silence >>

Next ==
    \/ Startup
    \/ OuterTop
    \/ InnerSerialError
    \/ InnerIteration
    \/ DeviceFallbackCycle
    \/ DeviceFallbackRaises

Spec == Init /\ [][Next]_vars

-----------------------------------------------------------------------------
(* Claims about the clock, checked under SpecClock *)

\* C5: of any sequence of sync_ntp_time() calls, at most one per
\* NTP_UPDATE_INTERVAL reaches an external tool (the probe or the offset
\* query), whether the previous sync succeeded or failed: a call that reaches
\* one comes at least NTP_UPDATE_INTERVAL after the previous call that did.
C5_OneExternalCallPerInterval ==
    (call.op = "sync" /\ call.ext_gap # Never) => call.ext_gap >= NTP_UPDATE_INTERVAL

\* C6: of two calls of sync_ntp_time() within the sync interval, the first
\* having gone out to the time source, the second makes no external call and
\* leaves ntp_offset, ntp_available and ntp_last_sync as the first left them.
C6_SecondCallIsIdle ==
    (call.op = "sync" /\ ReachedExternal(call.prev_how)
        /\ call.gap # Never /\ call.gap < NTP_UPDATE_INTERVAL)
    => (~ReachedExternal(call.how) /\ Clock = call.before)

\* C7: after a sync whose probe failed, ntp_available is false, and until the
\* next successful sync every get_ntp_timestamp() equals the system time: the
\* offset kept from an earlier sync is not applied.
C7_ProbeFailureGivesSystemTime ==
    /\ (call.op = "sync" /\ call.how = "unreachable") => ~ntp_available
    /\ sync_log.probe_failed => ~ntp_available
    /\ (call.op = "stamp" /\ call.after_probe_fail) => call.val = call.sys

\* C7 witness: a stamp taken after a failed probe while a non-zero offset
\* from an earlier successful sync is still stored.
C7_Witness ==
    call.op = "stamp" /\ call.after_probe_fail /\ ntp_offset # 0 /\ call.val = call.sys

\* C8: in every program, a sync that passes the rate limit and the probe but
\* parses no offset leaves ntp_available false, also when it was true before.
C8_NoOffsetMeansUnavailable ==
    (call.op = "sync" /\ call.how \in {"failed", "notools"}) => ~ntp_available

-----------------------------------------------------------------------------
(* Claims about the primary/fallback controller, checked under Spec *)

\* C1: a PRIMARY -> FALLBACK transition happens only on a local-device I/O
\* error or when more than LOCK_LOSS_THRESHOLD has passed without a recognized
\* line, the silence being counted from process start when no line was ever
\* read.
C1_FallbackOnlyOnErrorOrLockLoss ==
    (~ev.was_fallback /\ fallback_active)
    => \/ ev.serial_error
       \/ ev.op = "inner" /\ ev.read_at - silence.since > LOCK_LOSS_THRESHOLD

\* C2 as stated: in every silence episode (reads without a recognized line,
\* the silence past LOCK_LOSS_THRESHOLD) the PRIMARY -> FALLBACK transition is
\* taken exactly once and the controller stays in FALLBACK for the rest of the
\* episode; a recognized line read afterwards puts it back in PRIMARY.
C2_OncePerSilenceEpisode ==
    /\ (ev.op = "inner" /\ ~ev.serial_error /\ ~IsGpsLine(ev.line)
           /\ ev.read_at - silence.since > LOCK_LOSS_THRESHOLD)
       => (fallback_active /\ silence.transitions = 1)
    /\ (ev.op = "inner" /\ ~ev.serial_error /\ IsGpsLine(ev.line)) => ~fallback_active

\* C2 amended: in every silence episode in which no local-device I/O error
\* occurs, the PRIMARY -> FALLBACK transition is taken exactly once and the
\* controller stays in FALLBACK for the rest of the episode; a recognized line
\* read afterwards puts it back in PRIMARY.
C2_OncePerEpisodeWithoutDeviceError ==
    /\ (ev.op = "inner" /\ ~ev.serial_error /\ ~IsGpsLine(ev.line)
           /\ ~silence.device_error
           /\ ev.read_at - silence.since > LOCK_LOSS_THRESHOLD)
       => (fallback_active /\ silence.transitions = 1)
    /\ (ev.op = "inner" /\ ~ev.serial_error /\ IsGpsLine(ev.line)) => ~fallback_active

\* C2 witness: a recognized line was read, then more than LOCK_LOSS_THRESHOLD
\* of silence without a device error; the controller, already in FALLBACK,
\* reads one more unrecognized line and stays there.
C2_Witness ==
    /\ ev.op = "inner" /\ ~ev.serial_error /\ ~IsGpsLine(ev.line)
    /\ last_gps_data_time # 0 /\ ~silence.device_error
    /\ ev.read_at - silence.since > LOCK_LOSS_THRESHOLD
    /\ ev.was_fallback /\ fallback_active /\ silence.transitions = 1

\* C3: a line read that begins with $GP or $GN is, whatever the state before,
\* handed to the pipe verbatim plus CRLF, sets last_gps_data_time to the time
\* of the read and leaves the state PRIMARY at the end of the iteration; any
\* other line is not relayed, does not set last_gps_data_time and does not
\* change FALLBACK to PRIMARY.
C3_RecognizedLineRelayed ==
    (ev.op = "inner" /\ ~ev.serial_error) =>
        IF StartsWith(ev.line, << "$", "G", "P" >>) \/ StartsWith(ev.line, << "$", "G", "N" >>)
        THEN /\ Len(ev.writes) = 1
             /\ ev.writes[1].data = Relayed(ev.line \o << CR, LF >>)
             /\ ev.timer_set /\ last_gps_data_time = ev.read_at
             /\ ~fallback_active
        ELSE /\ \A i \in 1..Len(ev.writes) : ev.writes[i].data.src # "gps"
             /\ ~ev.timer_set
             /\ ev.was_fallback => fallback_active

\* C3 witness: in FALLBACK a $GN line is read, relayed and ends the fallback.
C3_Witness ==
    /\ ev.op = "inner" /\ ev.was_fallback
    /\ StartsWith(ev.line, << "$", "G", "N" >>)
    /\ ev.writes = << [data |-> Relayed(ev.line \o << CR, LF >>), ok |-> TRUE] >>
    /\ last_gps_data_time = now /\ ~fallback_active

\* C4: a local-device I/O error (open or read) puts the controller in
\* FALLBACK before anything more is emitted; in the device-error fallback
\* each completed cycle emits one synthesized batch, and the controller is in
\* PRIMARY after it exactly when the device path is present at its end.
C4_DeviceErrorFallback ==
    /\ ev.serial_error => (fallback_active /\ ev.writes = << >> /\ pc = "device_fallback")
    /\ pc = "device_fallback" => fallback_active
    /\ (ev.op = "devcycle" /\ ~ev.gen_raised) =>
          /\ ev.was_fallback
          /\ fallback_active = ~ev.path_present
          /\ (pc = "device_fallback") = ~ev.path_present
          /\ Len(ev.writes) = Len(SentenceKinds)
          /\ \A i \in 1..Len(ev.writes) :
                /\ ev.writes[i].data.src = "starlink"
                /\ ev.writes[i].data.kind = SentenceKinds[i]

\* C4 witness: a device error in PRIMARY, then a cycle of the device-error
\* fallback that finds the path present and returns to PRIMARY.
C4_Witness ==
    /\ ev.op = "devcycle" /\ ~ev.gen_raised /\ ev.path_present
    /\ silence.device_error /\ silence.transitions > 0
    /\ ~fallback_active /\ pc = "outer"

\* C10 (fallback bridge): while the serial device stays open, once
\* NTP_UPDATE_INTERVAL has passed since the last sync attempt a new attempt
\* follows; as no pass of the loop lasts longer than NTP_UPDATE_INTERVAL, the
\* loop that reads the device is never found two intervals after the last
\* attempt.
C10_SyncAttemptWhenDue ==
    pc = "inner" => now - last_ntp_sync_time < 2 * NTP_UPDATE_INTERVAL

-----------------------------------------------------------------------------
(* The Starlink dish: what the two grpcurl queries give back, and           *)
(* get_starlink_pnt().                                                      *)
(* Latitude and longitude are in whole degrees, altitude in units of        *)
(* 1/10000 m (AltUnitsPerMetre to the metre).                               *)

AltUnitsPerMetre == 10000

\* a JSON value, as json.loads() builds it: t is "null", "num", "bool" or
\* "obj"; n the number, b the boolean, f the members of the object
Null == [t |-> "null", n |-> 0, b |-> FALSE, f |-> [k \in {} |-> 0]]
NumV(x) == [t |-> "num", n |-> x, b |-> FALSE, f |-> [k \in {} |-> 0]]
BoolV(x) == [t |-> "bool", n |-> 0, b |-> x, f |-> [k \in {} |-> 0]]
Obj(members) == [t |-> "obj", n |-> 0, b |-> FALSE, f |-> members]
EmptyObj == Obj([k \in {} |-> 0])

\* Python's None
None == Null

\* dict.get(key, default); on a value that is no dict the attribute lookup
\* raises AttributeError
Got(v) == [raised |-> FALSE, val |-> v]
GetRaised == [raised |-> TRUE, val |-> None]
Get(d, key, default) ==
    IF d.t # "obj" THEN GetRaised
    ELSE IF key \in DOMAIN d.f THEN Got(d.f[key]) ELSE Got(default)

\* what subprocess.check_output(...).decode() and json.loads() give:
\*   "raised"     the command timed out, failed or was not found
\*   "malformed"  the output is no JSON document (json.loads raises)
\*   "doc"        the document
QueryRaised == [status |-> "raised", doc |-> Null]
Malformed == [status |-> "malformed", doc |-> Null]
Doc(d) == [status |-> "doc", doc |-> d]

LocationDoc(lla) == Doc(Obj("getLocation" :> Obj("lla" :> lla)))
StatusDoc(stats) == Doc(Obj("dishGetStatus" :> Obj("gpsStats" :> stats)))

LocationResults ==
    { QueryRaised, Malformed,
      Doc(NumV(1)), Doc(EmptyObj), Doc(Obj("getLocation" :> Null)),
      Doc(Obj("getLocation" :> EmptyObj)), LocationDoc(Null), LocationDoc(EmptyObj),
      LocationDoc(Obj(("lat" :> NumV(47)) @@ ("lon" :> NumV(0 - 122)) @@ ("alt" :> NumV(100005)))),
      LocationDoc(Obj(("lat" :> NumV(0)) @@ ("lon" :> NumV(0)) @@ ("alt" :> NumV(0)))),
      LocationDoc(Obj(("lat" :> NumV(47)) @@ ("lon" :> NumV(0)) @@ ("alt" :> NumV(0 - 15)))),
      LocationDoc(Obj(("lat" :> NumV(47)) @@ ("lon" :> NumV(0 - 122)))),
      LocationDoc(Obj(("lon" :> NumV(0 - 122)) @@ ("alt" :> NumV(100005)))),
      LocationDoc(Obj(("lat" :> NumV(47)) @@ ("alt" :> Null))),
      LocationDoc(Obj(("lat" :> Null) @@ ("lon" :> NumV(0 - 122)))) }

StatusResults ==
    { QueryRaised, Malformed,
      Doc(Null), Doc(EmptyObj), Doc(Obj("dishGetStatus" :> Null)),
      StatusDoc(Null), StatusDoc(EmptyObj),
      StatusDoc(Obj(("gpsSats" :> NumV(12)) @@ ("gpsValid" :> BoolV(TRUE)))),
      StatusDoc(Obj(("gpsSats" :> NumV(0)) @@ ("gpsValid" :> BoolV(FALSE)))),
      StatusDoc(Obj("gpsSats" :> NumV(12))),
      StatusDoc(Obj("gpsValid" :> BoolV(TRUE))),
      StatusDoc(Obj(("gpsSats" :> Null) @@ ("gpsValid" :> BoolV(FALSE)))) }

\* the first try block: lla = loc_json.get('getLocation', {}).get('lla', {});
\* lat, lon, alt = lla.get(...); any exception leaves the three None
location_fields(loc) ==
    LET absent == [lat |-> None, lon |-> None, alt |-> None]
        top == Get(loc.doc, "getLocation", EmptyObj)
        lla == Get(top.val, "lla", EmptyObj)
    IN  IF loc.status # "doc" \/ top.raised \/ lla.raised \/ lla.val.t # "obj"
        THEN absent
        ELSE [lat |-> Get(lla.val, "lat", None).val,
              lon |-> Get(lla.val, "lon", None).val,
              alt |-> Get(lla.val, "alt", None).val]

\* the second try block: gps_stats = stat_json.get('dishGetStatus', {})
\* .get('gpsStats', {}); gps_sats, gps_valid = gps_stats.get(...)
status_fields(stat) ==
    LET absent == [gps_sats |-> None, gps_valid |-> None]
        top == Get(stat.doc, "dishGetStatus", EmptyObj)
        stats == Get(top.val, "gpsStats", EmptyObj)
    IN  IF stat.status # "doc" \/ top.raised \/ stats.raised \/ stats.val.t # "obj"
        THEN absent
        ELSE [gps_sats |-> Get(stats.val, "gpsSats", None).val,
              gps_valid |-> Get(stats.val, "gpsValid", None).val]

get_starlink_pnt_StatusNeedsLocation(loc, stat) ==
    LET l == location_fields(loc)
        s == IF loc.status = "doc" THEN status_fields(stat) ELSE status_fields(QueryRaised)
    IN  [lat |-> l.lat, lon |-> l.lon, alt |-> l.alt,
         gps_sats |-> s.gps_sats, gps_valid |-> s.gps_valid]

\* get_starlink_pnt(): the two queries, each in its own try block
get_starlink_pnt(loc, stat) ==
    LET l == location_fields(loc)
        s == status_fields(stat)
    IN  [lat |-> l.lat, lon |-> l.lon, alt |-> l.alt,
         gps_sats |-> s.gps_sats, gps_valid |-> s.gps_valid]

-----------------------------------------------------------------------------
(* GNSS time, as send_gps_input() computes it.                              *)
(* An instant is [sec, us]: whole seconds since the Unix epoch and the      *)
(* microseconds within the second, the resolution of datetime.              *)

\* datetime(1980, 1, 6, tzinfo=timezone.utc) in seconds since the Unix epoch
GPS_EPOCH == 315964800
\* gps_utc_offset = 18
GPS_UTC_OFFSET == 18
\* 604800 seconds per week
SECONDS_PER_WEEK == 604800

Instant(sec, us) == [sec |-> sec, us |-> us]

\* int(x / y) for y > 0: the quotient truncated toward zero
TruncDiv(x, y) == IF x >= 0 THEN x \div y ELSE 0 - ((0 - x) \div y)

\* time_since_gps_epoch = (current_dt - gps_epoch).total_seconds() + 18,
\* as whole seconds and microseconds
time_since_gps_epoch(i) == Instant(i.sec - GPS_EPOCH + GPS_UTC_OFFSET, i.us)

gps_week_NoLeapSeconds(i) == TruncDiv(i.sec - GPS_EPOCH, SECONDS_PER_WEEK)

\* gps_week = int(time_since_gps_epoch / 604800)
gps_week(i) ==
    LET e == time_since_gps_epoch(i)
    IN  IF e.sec < 0 /\ e.us > 0
        THEN TruncDiv(e.sec + 1, SECONDS_PER_WEEK)
        ELSE TruncDiv(e.sec, SECONDS_PER_WEEK)

\* the sub-second part dropped
time_week_ms_WholeSeconds(i) ==
    (time_since_gps_epoch(i).sec % SECONDS_PER_WEEK) * 1000

time_week_ms_Rounded(i) ==
    (time_since_gps_epoch(i).sec % SECONDS_PER_WEEK) * 1000
        + (time_since_gps_epoch(i).us + 500) \div 1000

\* time_week = time_since_gps_epoch % 604800; time_week_ms = int(time_week * 1000)
time_week_ms(i) ==
    (time_since_gps_epoch(i).sec % SECONDS_PER_WEEK) * 1000
        + time_since_gps_epoch(i).us \div 1000

-----------------------------------------------------------------------------
(* The encoders *)

\* Python truth value of a JSON value: None, 0, False and {} are false
Truthy(v) ==
    \/ v.t = "num" /\ v.n # 0
    \/ v.t = "bool" /\ v.b
    \/ v.t = "obj" /\ DOMAIN v.f # {}

\* x if x is not None else default
OrDefault(v, default) == IF v.t # "null" THEN v ELSE default

\* a | b, bit by bit
RECURSIVE BitOr(_, _)
BitOr(a, b) ==
    IF a = 0 THEN b
    ELSE IF b = 0 THEN a
    ELSE (IF (a % 2) + (b % 2) > 0 THEN 1 ELSE 0) + 2 * BitOr(a \div 2, b \div 2)

\* the flags of the fields the dish does not supply: hdop, vdop, vel_horiz,
\* vel_vert, horiz_accuracy, vert_accuracy, speed_accuracy
IgnoredFieldFlags == << 8, 16, 32, 64, 128, 256, 512 >>

RECURSIVE BitOrAll(_)
BitOrAll(flags) == IF flags = << >> THEN 0 ELSE BitOr(Head(flags), BitOrAll(Tail(flags)))

\* ignore_flags = 8 | 16 | 32 | 64 | 128 | 256 | 512
IGNORE_FLAGS == BitOrAll(IgnoredFieldFlags)
\* lat = int(pnt['lat'] * 1e7)
DEGREES_E7 == 10000000
\* satellites_visible = ... else 10
DEFAULT_SATELLITES == 10

\* alt = int((pnt['alt'] if pnt['alt'] else 0) * 1000): metres to millimetres,
\* truncated toward zero
altitude_mm(alt) ==
    IF Truthy(alt) THEN TruncDiv(alt.n * 1000, AltUnitsPerMetre) ELSE 0

\* fix_type = 3 if pnt.get('gps_valid') else 0
fix_type(valid) == IF Truthy(valid) THEN 3 ELSE 0

satellites_visible_AsReported(sats) == IF sats.t = "num" THEN sats.n ELSE DEFAULT_SATELLITES

\* satellites_visible = pnt.get('gps_sats') if pnt.get('gps_sats') else 10
satellites_visible(sats) == IF Truthy(sats) THEN sats.n ELSE DEFAULT_SATELLITES

\* a mask that follows the fix: the altitude bit set when alt is unknown
gps_input_MaskFromFix(p, i) ==
    [ignore_flags |-> IF Truthy(p.alt) THEN IGNORE_FLAGS ELSE BitOr(IGNORE_FLAGS, 4),
     time_week_ms |-> time_week_ms(i),
     gps_week |-> gps_week(i),
     lat |-> p.lat.n * DEGREES_E7,
     lon |-> p.lon.n * DEGREES_E7,
     alt |-> altitude_mm(p.alt),
     satellites_visible |-> satellites_visible(p.gps_sats),
     fix_type |-> fix_type(p.gps_valid)]

\* the GPS_INPUT message handed to master.mav.gps_input_send()
gps_input(p, i) ==
    [ignore_flags |-> IGNORE_FLAGS,
     time_week_ms |-> time_week_ms(i),
     gps_week |-> gps_week(i),
     lat |-> p.lat.n * DEGREES_E7,
     lon |-> p.lon.n * DEGREES_E7,
     alt |-> altitude_mm(p.alt),
     satellites_visible |-> satellites_visible(p.gps_sats),
     fix_type |-> fix_type(p.gps_valid)]

Encodable_LatOnly(p) == p.lat.t # "null"

\* if pnt['lat'] is None or pnt['lon'] is None: return False
Encodable(p) == p.lat.t # "null" /\ p.lon.t # "null"

\* send_gps_input(pnt): what it returns, the messages it sends and total_sent
send_gps_input(p, i, total) ==
    IF ~Encodable(p)
    THEN [returned |-> FALSE, messages |-> << >>, total_sent |-> total]
    ELSE [returned |-> TRUE, messages |-> << gps_input(p, i) >>, total_sent |-> total + 1]

\* the fields each kind of sentence carries
SentenceFields ==
    [GGA |-> {"time", "lat", "lon", "quality", "sats", "alt"},
     RMC |-> {"time", "status", "lat", "lon", "date"},
     VTG |-> {},
     GLL |-> {"lat", "lon", "time", "status"},
     GSA |-> {},
     ZDA |-> {"time", "date"}]

\* a sentence of kind k built from the values v: the fields the kind does
\* not carry are left 0 (status "")
Sentence(k, v) ==
    LET has == SentenceFields[k]
        num(name, x) == IF name \in has THEN x ELSE 0
    IN  [kind |-> k, has |-> has,
         time |-> num("time", v.time), date |-> num("date", v.time),
         lat |-> num("lat", v.lat), lon |-> num("lon", v.lon),
         alt |-> num("alt", v.alt), sats |-> num("sats", v.sats),
         quality |-> num("quality", v.quality),
         status |-> IF "status" \in has THEN v.status ELSE ""]

\* fix_quality = 1 if gps_valid else 0
fix_quality(valid) == IF Truthy(valid) THEN 1 ELSE 0
\* 'A' if gps_valid else 'V'
fix_status(valid) == IF Truthy(valid) THEN "A" ELSE "V"

\* fallback bridge: lat 47.0, lon -122.0, alt 10.0, gps_sats 8, gps_valid True
FALLBACK_LAT == 47
FALLBACK_LON == 0 - 122
FALLBACK_ALT == 10 * AltUnitsPerMetre
FALLBACK_SATS == 8
FALLBACK_VALID == TRUE

fallback_values_NoPlaceholders(p) ==
    [lat |-> p.lat.n, lon |-> p.lon.n, alt |-> p.alt.n, sats |-> p.gps_sats.n,
     quality |-> fix_quality(OrDefault(p.gps_valid, BoolV(FALLBACK_VALID))),
     status |-> fix_status(OrDefault(p.gps_valid, BoolV(FALLBACK_VALID)))]

\* get_starlink_sentences(), its first lines: x if x is not None else placeholder
fallback_values(p) ==
    [lat |-> OrDefault(p.lat, NumV(FALLBACK_LAT)).n,
     lon |-> OrDefault(p.lon, NumV(FALLBACK_LON)).n,
     alt |-> OrDefault(p.alt, NumV(FALLBACK_ALT)).n,
     sats |-> OrDefault(p.gps_sats, NumV(FALLBACK_SATS)).n,
     quality |-> fix_quality(OrDefault(p.gps_valid, BoolV(FALLBACK_VALID))),
     status |-> fix_status(OrDefault(p.gps_valid, BoolV(FALLBACK_VALID)))]

\* get_starlink_sentences() for the dict p: the six sentences, each with the
\* time of its own sample of the clock
fallback_batch(p, t, c) ==
    LET samples == get_starlink_sentences(t, c)
        v == fallback_values(p)
    IN  [i \in 1..Len(samples) |->
            Sentence(samples[i].kind,
                     [time |-> samples[i].time, lat |-> v.lat, lon |-> v.lon, alt |-> v.alt,
                      sats |-> v.sats, quality |-> v.quality, status |-> v.status])]

\* udp bridge: lat 0.0, lon 0.0, alt 0.0, gps_sats 0, gps_valid False
udp_values(p) ==
    [lat |-> OrDefault(p.lat, NumV(0)).n,
     lon |-> OrDefault(p.lon, NumV(0)).n,
     alt |-> OrDefault(p.alt, NumV(0)).n,
     sats |-> OrDefault(p.gps_sats, NumV(0)).n,
     quality |-> fix_quality(OrDefault(p.gps_valid, BoolV(FALSE))),
     status |-> fix_status(OrDefault(p.gps_valid, BoolV(FALSE)))]

\* the sentences generate_nmea_sentences() appends, in order
UdpSentenceKinds == << "GGA", "RMC", "VTG", "GLL", "GSA" >>

\* generate_nmea_sentences() for the dict p: nothing if lat == 0.0 and
\* lon == 0.0, else the sentences, all with one sample of the clock
generate_nmea_sentences(p, t, c) ==
    LET v == udp_values(p)
        time == IF c.ntp_available THEN get_ntp_timestamp(t, c) ELSE t
    IN  IF v.lat = 0 /\ v.lon = 0 THEN << >>
        ELSE [i \in 1..Len(UdpSentenceKinds) |->
                 Sentence(UdpSentenceKinds[i],
                          [time |-> time, lat |-> v.lat, lon |-> v.lon, alt |-> v.alt,
                           sats |-> v.sats, quality |-> v.quality, status |-> v.status])]

\* how the sendto() of each datagram of a cycle ends
SendPatterns ==
    { [i \in 1..Len(SentenceKinds) |-> TRUE],
      [i \in 1..Len(SentenceKinds) |-> i # 2] }

\* for sentence in sentences: send_udp(sentence); total_sent counts the
\* datagrams that went out
udp_cycle(batch, pattern, total) ==
    [datagrams |-> [i \in 1..Len(batch) |-> [data |-> batch[i], ok |-> pattern[i]]],
     total_sent |-> total + Cardinality({i \in 1..Len(batch) : pattern[i]})]

-----------------------------------------------------------------------------
(* SpecFix: one poll of the dish and one encoding of its result, in each    *)
(* program, over and over                                                   *)

\* the model follows total_sent up to MaxSent
MaxSent == 12

InitFix ==
    /\ variant \in Variants
    /\ now = StartTime
    /\ ntp_offset \in {0, 3}
    /\ ntp_last_sync = IF ntp_offset = 0 THEN 0 ELSE StartTime
    /\ ntp_available = (ntp_offset # 0)
    /\ sync_log = NoSync
    /\ call = Idle(Clock)
    /\ pc = "poll"
    /\ last_gps_data_time = 0
    /\ fallback_active = FALSE
    /\ last_ntp_sync_time = 0
    /\ ev = << >>
    /\ silence = << >>
    /\ pnt = get_starlink_pnt(QueryRaised, QueryRaised)
    /\ total_sent = 0
    /\ emitted = [op |-> "none"]
    /\ proc = NoProcess

\* pnt = get_starlink_pnt()
Poll ==
    /\ pc = "poll"
    /\ \E loc \in LocationResults, stat \in StatusResults :
          /\ pnt' = get_starlink_pnt(loc, stat)
          /\ emitted' = [op |-> "poll", loc |-> loc, stat |-> stat]
    /\ pc' = "encode"
    /\ UNCHANGED << proc, variant, now, clockVars, sync_log, call, total_sent,
                    last_gps_data_time, fallback_active, last_ntp_sync_time, ev, silence >>

\* mavlink: send_gps_input(pnt)
SendGpsInput ==
    /\ pc = "encode" /\ variant = "mavlink"
    /\ total_sent < MaxSent
    /\ LET r == send_gps_input(pnt, Instant(get_ntp_timestamp(now, Clock), 0), total_sent)
       IN  /\ emitted' = [op |-> "gps_input", returned |-> r.returned,
                          messages |-> r.messages, total_before |-> total_sent]
           /\ total_sent' = r.total_sent
    /\ pc' = "poll"
    /\ UNCHANGED << proc, variant, now, clockVars, sync_log, call, pnt,
                    last_gps_data_time, fallback_active, last_ntp_sync_time, ev, silence >>

\* udp: sentences = generate_nmea_sentences(); each one to send_udp()
UdpCycle ==
    /\ pc = "encode" /\ variant = "udp"
    /\ total_sent + Len(UdpSentenceKinds) <= MaxSent
    /\ \E pattern \in SendPatterns :
          LET batch == generate_nmea_sentences(pnt, now, Clock)
              r == udp_cycle(batch, pattern, total_sent)
          IN  /\ emitted' = [op |-> "udp_cycle", batch |-> batch,
                             datagrams |-> r.datagrams, total_before |-> total_sent]
              /\ total_sent' = r.total_sent
    /\ pc' = "poll"
    /\ UNCHANGED << proc, variant, now, clockVars, sync_log, call, pnt,
                    last_gps_data_time, fallback_active, last_ntp_sync_time, ev, silence >>

\* fallback bridge: sentences = get_starlink_sentences()
FallbackBatch ==
    /\ pc = "encode" /\ variant = "fallback"
    /\ emitted' = [op |-> "fallback_batch", batch |-> fallback_batch(pnt, now, Clock)]
    /\ pc' = "poll"
    /\ UNCHANGED << proc, variant, now, clockVars, sync_log, call, pnt, total_sent,
                    last_gps_data_time, fallback_active, last_ntp_sync_time, ev, silence >>

NextFix == Poll \/ SendGpsInput \/ UdpCycle \/ FallbackBatch

SpecFix == InitFix /\ [][NextFix]_vars

-----------------------------------------------------------------------------
(* Claims about the poll of the dish and the encoders, checked under SpecFix *)

\* C11: get_starlink_pnt() returns a dict for every pair of query outcomes;
\* lat, lon and alt depend on the position query alone, gps_sats and
\* gps_valid on the status query alone; a query that failed (error, timeout,
\* malformed document) leaves exactly its own fields None, and a document
\* that holds a key gives that key's value whatever the other query did.
C11_QueriesIndependent ==
    emitted.op = "poll" =>
        LET loc == emitted.loc
            stat == emitted.stat
            lla == Get(Get(loc.doc, "getLocation", EmptyObj).val, "lla", EmptyObj).val
            stats == Get(Get(stat.doc, "dishGetStatus", EmptyObj).val, "gpsStats", EmptyObj).val
        IN  /\ DOMAIN pnt = {"lat", "lon", "alt", "gps_sats", "gps_valid"}
            /\ \A s2 \in StatusResults :
                  LET q == get_starlink_pnt(loc, s2)
                  IN  q.lat = pnt.lat /\ q.lon = pnt.lon /\ q.alt = pnt.alt
            /\ \A l2 \in LocationResults :
                  LET q == get_starlink_pnt(l2, stat)
                  IN  q.gps_sats = pnt.gps_sats /\ q.gps_valid = pnt.gps_valid
            /\ loc.status # "doc" => (pnt.lat = None /\ pnt.lon = None /\ pnt.alt = None)
            /\ stat.status # "doc" => (pnt.gps_sats = None /\ pnt.gps_valid = None)
            /\ (loc.status = "doc" /\ lla.t = "obj") =>
                  /\ pnt.lat = (IF "lat" \in DOMAIN lla.f THEN lla.f["lat"] ELSE None)
                  /\ pnt.lon = (IF "lon" \in DOMAIN lla.f THEN lla.f["lon"] ELSE None)
                  /\ pnt.alt = (IF "alt" \in DOMAIN lla.f THEN lla.f["alt"] ELSE None)
            /\ (stat.status = "doc" /\ stats.t = "obj") =>
                  /\ pnt.gps_sats = (IF "gpsSats" \in DOMAIN stats.f
                                     THEN stats.f["gpsSats"] ELSE None)
                  /\ pnt.gps_valid = (IF "gpsValid" \in DOMAIN stats.f
                                      THEN stats.f["gpsValid"] ELSE None)

\* C11 witness: the position query fails and the status query answers; the
\* dict holds the satellite count and validity and no position.
C11_Witness ==
    /\ emitted.op = "poll"
    /\ emitted.loc.status = "raised" /\ emitted.stat.status = "doc"
    /\ pnt.lat = None /\ pnt.lon = None /\ pnt.alt = None
    /\ pnt.gps_sats = NumV(12) /\ pnt.gps_valid = BoolV(TRUE)

\* C12: send_gps_input() sends exactly one GPS_INPUT message and returns True
\* for every dict with lat and lon present, whatever of alt, gps_sats and
\* gps_valid is absent; with lat or lon absent it returns False, sends no
\* message and leaves total_sent unchanged.
C12_SendGpsInputTotal ==
    emitted.op = "gps_input" =>
        IF pnt.lat # None /\ pnt.lon # None
        THEN /\ emitted.returned
             /\ Len(emitted.messages) = 1
             /\ total_sent = emitted.total_before + 1
        ELSE /\ ~emitted.returned
             /\ emitted.messages = << >>
             /\ total_sent = emitted.total_before

\* C12 witness: a dict with lat and lon and nothing else is sent as one
\* message.
C12_Witness ==
    /\ emitted.op = "gps_input"
    /\ pnt.lat # None /\ pnt.lon # None
    /\ pnt.alt = None /\ pnt.gps_sats = None /\ pnt.gps_valid = None
    /\ emitted.returned /\ Len(emitted.messages) = 1

\* C13: in the UDP bridge a cycle whose dict has lat absent or lon absent
\* (either one) produces an empty batch and sends no datagram.
C13_UdpSkipsUnencodableFix ==
    (emitted.op = "udp_cycle" /\ (pnt.lat = None \/ pnt.lon = None))
        => (emitted.batch = << >> /\ emitted.datagrams = << >>)

\* C14: in the fallback bridge get_starlink_sentences() returns a full batch
\* of six sentences for every dict, also one with every field absent; each
\* absent field among lat, lon, alt and gps_sats is replaced by its placeholder
\* (47.0, -122.0, 10.0 m, 8) and each present one is used as it is.
C14_FallbackBatchComplete ==
    emitted.op = "fallback_batch" =>
        /\ Len(emitted.batch) = 6
        /\ \A i \in 1..Len(emitted.batch) :
              LET x == emitted.batch[i]
              IN  /\ "lat" \in x.has => x.lat = (IF pnt.lat = None THEN 47 ELSE pnt.lat.n)
                  /\ "lon" \in x.has => x.lon = (IF pnt.lon = None THEN 0 - 122 ELSE pnt.lon.n)
                  /\ "alt" \in x.has =>
                        x.alt = (IF pnt.alt = None THEN 10 * AltUnitsPerMetre ELSE pnt.alt.n)
                  /\ "sats" \in x.has =>
                        x.sats = (IF pnt.gps_sats = None THEN 8 ELSE pnt.gps_sats.n)

\* C14 witness: both queries failed, and the batch is complete and carries
\* the four placeholders.
C14_Witness ==
    /\ emitted.op = "fallback_batch"
    /\ pnt = get_starlink_pnt(QueryRaised, QueryRaised)
    /\ Len(emitted.batch) = 6
    /\ emitted.batch[1].kind = "GGA"
    /\ emitted.batch[1].lat = 47 /\ emitted.batch[1].lon = 0 - 122
    /\ emitted.batch[1].alt = 100000 /\ emitted.batch[1].sats = 8

\* C15: every non-empty batch of either NMEA encoder holds exactly one
\* sentence of each of the six kinds, in the order GGA, RMC, VTG, GLL, GSA,
\* ZDA.
C15_SixKindsInOrder ==
    (emitted.op \in {"udp_cycle", "fallback_batch"} /\ emitted.batch # << >>)
        => [i \in 1..Len(emitted.batch) |-> emitted.batch[i].kind]
               = << "GGA", "RMC", "VTG", "GLL", "GSA", "ZDA" >>

\* C17: in every program gps_valid true is encoded as a good fix (GGA
\* quality 1, RMC/GLL status A, GPS_INPUT fix type 3) and gps_valid false or
\* absent as no fix (quality 0, status V, fix type 0).
C17_ValidityFlag ==
    LET good == pnt.gps_valid = BoolV(TRUE)
    IN  /\ emitted.op = "gps_input" =>
              \A i \in 1..Len(emitted.messages) :
                  emitted.messages[i].fix_type = (IF good THEN 3 ELSE 0)
        /\ emitted.op \in {"udp_cycle", "fallback_batch"} =>
              \A i \in 1..Len(emitted.batch) :
                  LET x == emitted.batch[i]
                  IN  /\ "quality" \in x.has => x.quality = (IF good THEN 1 ELSE 0)
                      /\ "status" \in x.has => x.status = (IF good THEN "A" ELSE "V")

\* C20: the satellite count of a GPS_INPUT message is gps_sats when present
\* and not zero, else 10; its altitude is the altitude in metres times 1000
\* (whole millimetres, the fraction dropped) when present, else 0.
C20_SatellitesAndAltitude ==
    (emitted.op = "gps_input" /\ emitted.messages # << >>) =>
        LET m == emitted.messages[1]
            given == pnt.alt.n * 1000
            sent == m.alt * AltUnitsPerMetre
        IN  /\ m.satellites_visible =
                  (IF pnt.gps_sats # None /\ pnt.gps_sats.n # 0 THEN pnt.gps_sats.n ELSE 10)
            /\ pnt.alt = None => m.alt = 0
            /\ pnt.alt # None =>
                  /\ given >= 0 => (sent <= given /\ given < sent + AltUnitsPerMetre)
                  /\ given < 0 => (sent >= given /\ given > sent - AltUnitsPerMetre)

\* C20 witness: an altitude of 10.0005 m and no satellite count are sent as
\* 10000 mm and 10 satellites.
C20_Witness ==
    /\ emitted.op = "gps_input" /\ emitted.messages # << >>
    /\ pnt.alt = NumV(100005) /\ pnt.gps_sats = None
    /\ emitted.messages[1].alt = 10000
    /\ emitted.messages[1].satellites_visible = 10

\* bit k of n
Bit(n, k) == (n \div (2 ^ k)) % 2

\* C21: every GPS_INPUT message sent carries the same ignore mask, whatever
\* the fix: bits 3..9 (hdop, vdop, horizontal and vertical velocity,
\* horizontal, vertical and speed accuracy; value 1016) are set and bits 0..2
\* (latitude, longitude, altitude) are clear.
C21_IgnoreMaskConstant ==
    emitted.op = "gps_input" =>
        \A m \in 1..Len(emitted.messages) :
            /\ emitted.messages[m].ignore_flags = 1016
            /\ \A k \in 3..9 : Bit(emitted.messages[m].ignore_flags, k) = 1
            /\ \A k \in 0..2 : Bit(emitted.messages[m].ignore_flags, k) = 0

\* C21 witness: a message for a fix without altitude, satellites or validity
\* has been sent with the mask 1016.
C21_Witness ==
    /\ emitted.op = "gps_input" /\ emitted.messages # << >>
    /\ pnt.alt = None /\ pnt.gps_sats = None /\ pnt.gps_valid = None
    /\ emitted.messages[1].ignore_flags = 1016

-----------------------------------------------------------------------------
(* Claims about the errors and the writes of the loop of the fallback       *)
(* bridge, checked under Spec                                               *)

\* C24: no per-cycle error ends the main loop: after any exception raised
\* during a cycle (by the position query, the generation of the sentences,
\* the write to the sink, the read of the local device) the process is still
\* running, also when the error is raised inside the device-error fallback
\* cycle of the fallback bridge.
C24_NoCycleErrorEndsLoop == pc # "crashed"

\* the writes of the last step that carry a sentence of the given source
WritesFrom(src) == {k \in 1..Len(ev.writes) : ev.writes[k].data.src = src}

\* C26 (fallback bridge): synthesized sentences are written to the sink only
\* while the state is FALLBACK, and no loop iteration both relays a local GPS
\* line and emits a synthesized batch: an iteration that relays a line leaves
\* the state PRIMARY, and an iteration of the reading loop that ends in
\* PRIMARY has written no synthesized sentence.
C26_SynthesizedOnlyInFallback ==
    /\ ~(WritesFrom("gps") # {} /\ WritesFrom("starlink") # {})
    /\ (ev.op = "inner" /\ WritesFrom("starlink") # {}) => fallback_active
    /\ (ev.op = "devcycle" /\ WritesFrom("starlink") # {}) => ev.was_fallback
    /\ WritesFrom("gps") # {} => ~fallback_active
    /\ ev.op \in {"startup", "outer"} => ev.writes = << >>

\* C26 witness: in FALLBACK a recognized line is read; it is relayed, the
\* state is PRIMARY and no synthesized sentence is written in that iteration.
C26_Witness ==
    /\ ev.op = "inner" /\ ev.was_fallback /\ ev.timer_set
    /\ Len(ev.writes) = 1 /\ WritesFrom("gps") = {1}
    /\ ~fallback_active

-----------------------------------------------------------------------------
(* The NMEA checksum.  A sentence is a sequence of bytes (character codes). *)

DOLLAR == 36
STAR == 42

\* checksum ^= ord(c), bit by bit
RECURSIVE Xor(_, _)
Xor(a, b) ==
    IF a = 0 THEN b
    ELSE IF b = 0 THEN a
    ELSE (((a % 2) + (b % 2)) % 2) + 2 * Xor(a \div 2, b \div 2)

\* checksum = 0; for c in chars: checksum ^= ord(c)
RECURSIVE XorAll(_)
XorAll(chars) == IF chars = << >> THEN 0 ELSE Xor(Head(chars), XorAll(Tail(chars)))

\* the character of a hexadecimal digit, upper case
HexChar(d) == IF d < 10 THEN 48 + d ELSE 55 + d

\* format(n, 'X')
RECURSIVE HexDigits(_)
HexDigits(n) == IF n < 16 THEN << HexChar(n) >> ELSE HexDigits(n \div 16) \o << HexChar(n % 16) >>

\* f"{checksum:02X}": at least two digits, padded with "0"
Format02X(n) == IF n < 16 THEN << HexChar(0) >> \o HexDigits(n) ELSE HexDigits(n)

calculate_checksum_WithDollar(sentence) == Format02X(XorAll(sentence))

\* calculate_checksum(sentence): over sentence[1:], the "$" skipped
calculate_checksum(sentence) == Format02X(XorAll(Tail(sentence)))

\* f"{gga}*{calculate_checksum(gga)}"
with_checksum(sentence) == sentence \o << STAR >> \o calculate_checksum(sentence)

\* the characters of a sentence body: "," "." "0" "1" "G" "P"
BodyChars == {44, 46, 48, 49, 71, 80}
\* bodies of up to MaxBody characters
MaxBody == 3
Bodies == UNION {[1..n -> BodyChars] : n \in 0..MaxBody}

InitChecksum ==
    /\ variant \in {"fallback", "udp"}
    /\ now = StartTime
    /\ ntp_offset = 0
    /\ ntp_last_sync = 0
    /\ ntp_available = FALSE
    /\ sync_log = NoSync
    /\ call = Idle(Clock)
    /\ pc = "none"
    /\ last_gps_data_time = 0
    /\ fallback_active = FALSE
    /\ last_ntp_sync_time = 0
    /\ ev = << >>
    /\ silence = << >>
    /\ pnt = << >>
    /\ total_sent = 0
    /\ emitted = [op |-> "none"]
    /\ proc = NoProcess

\* sentences.append(f"{x}*{checksum:02X}") for a sentence "$" body
AppendSentence ==
    /\ \E body \in Bodies :
          emitted' = [op |-> "sentence", body |-> body,
                      text |-> with_checksum(<< DOLLAR >> \o body)]
    /\ UNCHANGED << proc, variant, now, clockVars, sync_log, call, failoverVars, pnt, total_sent >>

NextChecksum == AppendSentence

SpecChecksum == InitChecksum /\ [][NextChecksum]_vars

\* the value of a hexadecimal digit written in upper case, else 16
HexValue(ch) ==
    IF ch >= 48 /\ ch <= 57 THEN ch - 48
    ELSE IF ch >= 65 /\ ch <= 70 THEN ch - 55
    ELSE 16

\* C16: every sentence has the form "$" body "*" HH, HH being two upper-case
\* hexadecimal digits whose value is the exclusive-or of all bytes of body:
\* the checksum recomputed over the body equals the trailing digits.
C16_ChecksumOverBody ==
    emitted.op = "sentence" =>
        LET text == emitted.text
            n == Len(text)
            body == SubSeq(text, 2, n - 3)
            hi == HexValue(text[n - 1])
            lo == HexValue(text[n])
        IN  /\ n = Len(emitted.body) + 4
            /\ text[1] = DOLLAR /\ body = emitted.body /\ text[n - 2] = STAR
            /\ hi < 16 /\ lo < 16
            /\ 16 * hi + lo = XorAll(body)

\* C16 witness: the body "GP," has exclusive-or 59, written "3B".
C16_Witness ==
    /\ emitted.op = "sentence"
    /\ emitted.body = << 71, 80, 44 >>
    /\ emitted.text = << 36, 71, 80, 44, 42, 51, 66 >>

-----------------------------------------------------------------------------
(* SpecGnss: the GNSS time of send_gps_input() for pairs of instants at or *)
(* after the GNSS epoch, around week boundaries                             *)

\* week boundaries 1..MaxWeek after the GNSS epoch are visited
MaxWeek == 2

\* the UTC second at which GNSS week k begins
WeekStart(k) == GPS_EPOCH + k * SECONDS_PER_WEEK - GPS_UTC_OFFSET

InstantSeconds ==
    {GPS_EPOCH, StartTime}
        \cup UNION {{WeekStart(k) - 1, WeekStart(k)} : k \in 1..MaxWeek}
InstantMicros == {0, 1, 999, 999499, 999500, 999999}
Instants == {Instant(sec, us) : sec \in InstantSeconds, us \in InstantMicros}

\* t1 <= t2
NotAfter(t1, t2) == t1.sec < t2.sec \/ (t1.sec = t2.sec /\ t1.us <= t2.us)

GnssTime(i) == [week |-> gps_week(i), ms |-> time_week_ms(i)]

InitGnss ==
    /\ variant = "mavlink"
    /\ now = StartTime
    /\ ntp_offset = 0
    /\ ntp_last_sync = 0
    /\ ntp_available = FALSE
    /\ sync_log = NoSync
    /\ call = Idle(Clock)
    /\ pc = "none"
    /\ last_gps_data_time = 0
    /\ fallback_active = FALSE
    /\ last_ntp_sync_time = 0
    /\ ev = << >>
    /\ silence = << >>
    /\ pnt = << >>
    /\ total_sent = 0
    /\ emitted = [op |-> "none"]
    /\ proc = NoProcess

\* two calls of send_gps_input(), the second not before the first
ConvertPair ==
    /\ \E t1 \in Instants, t2 \in Instants :
          /\ NotAfter(t1, t2)
          /\ emitted' = [op |-> "gnss", earlier |-> t1, later |-> t2,
                         first |-> GnssTime(t1), second |-> GnssTime(t2)]
    /\ UNCHANGED << proc, variant, now, clockVars, sync_log, call, failoverVars, pnt, total_sent >>

NextGnss == ConvertPair

SpecGnss == InitGnss /\ [][NextGnss]_vars

\* C18: for every UTC instant at or after the GNSS epoch the GNSS time has
\* week >= 0 and 0 <= millisecond of week < 604800000, also within one
\* millisecond of a week boundary.
C18_GnssTimeInRange ==
    emitted.op = "gnss" =>
        /\ emitted.first.week >= 0 /\ emitted.second.week >= 0
        /\ emitted.first.ms >= 0 /\ emitted.first.ms < 604800000
        /\ emitted.second.ms >= 0 /\ emitted.second.ms < 604800000

\* C18 witness: one microsecond before the start of week 1 the millisecond
\* of week is 604799999, in week 0.
C18_Witness ==
    /\ emitted.op = "gnss"
    /\ emitted.later = Instant(WeekStart(1) - 1, 999999)
    /\ emitted.second = [week |-> 0, ms |-> 604799999]

RefElapsedSeconds(i) == i.sec - 315964800 + 18
RefWeek(i) == RefElapsedSeconds(i) \div 604800
RefMsTruncated(i) == (RefElapsedSeconds(i) % 604800) * 1000 + (i.us \div 1000)
RefMsRounded(i) == (RefElapsedSeconds(i) % 604800) * 1000 + ((i.us + 500) \div 1000)

\* C22 (as stated): the GNSS time equals the reference conversion with the
\* millisecond of week rounded to nearest.
C22_MillisecondRounded ==
    emitted.op = "gnss" =>
        /\ emitted.second.week = RefWeek(emitted.later)
        /\ emitted.second.ms = RefMsRounded(emitted.later)

\* C22 (amended): for every UTC instant at or after the GNSS epoch the GNSS
\* time equals the reference conversion with the millisecond of week
\* truncated: week = floor(elapsed / 604800), millisecond of week =
\* floor((elapsed mod 604800) * 1000).
C22_MillisecondTruncated ==
    emitted.op = "gnss" =>
        /\ emitted.first.week = RefWeek(emitted.earlier)
        /\ emitted.first.ms = RefMsTruncated(emitted.earlier)
        /\ emitted.second.week = RefWeek(emitted.later)
        /\ emitted.second.ms = RefMsTruncated(emitted.later)

\* C22 witness: half a millisecond before the start of week 1 the millisecond
\* of week is 604799999, where rounding would give 604800000.
C22_Witness ==
    /\ emitted.op = "gnss"
    /\ emitted.later = Instant(WeekStart(1) - 1, 999500)
    /\ emitted.second = [week |-> 0, ms |-> 604799999]
    /\ RefMsRounded(emitted.later) = 604800000

-----------------------------------------------------------------------------
(* SpecBatch: one fallback batch of the inner loop of main() of the fallback *)
(* bridge, with the instants at which each sentence samples the clock and   *)
(* at which it is written to the pipe                                       *)

MICROS_PER_SECOND == 1000000
SECONDS_PER_DAY == 86400
\* time.sleep(0.2) after each sentence, in microseconds
SENTENCE_PAUSE_US == 200000

\* the model follows the batches that begin within MaxBatchSeconds of a start
MaxBatchSeconds == 3

\* the midnight (UTC) after StartTime
Midnight == StartTime - (StartTime % SECONDS_PER_DAY) + SECONDS_PER_DAY

\* the process is followed from StartTime and from the second before midnight
BatchStarts == {StartTime, Midnight - 1}
\* the microsecond at which the first sentence samples the clock
BatchMicros == {0, 999950}
\* the time one sentence takes to build, and what a pause takes over 0.2 s
BuildMicros == {0, 20}
PauseExcess == {0, 150}

AddMicros(i, d) ==
    Instant(i.sec + ((i.us + d) \div MICROS_PER_SECOND), (i.us + d) % MICROS_PER_SECOND)

\* if ntp_available: now = utcfromtimestamp(get_ntp_timestamp()) else: now = utcnow()
corrected_now(i) ==
    Instant(IF Clock.ntp_available THEN get_ntp_timestamp(i.sec, Clock) ELSE i.sec, i.us)

\* now.strftime("%H%M%S.%f")[:-4]: the time of day to the hundredth of a second
time_str(i) == [second_of_day |-> i.sec % SECONDS_PER_DAY, hundredths |-> i.us \div 10000]

\* get_starlink_sentences(): sentence k samples the clock when it is built
timed_sentences(start, build) ==
    [k \in 1..Len(SentenceKinds) |->
        LET at == AddMicros(start, (k - 1) * build)
        IN  [kind |-> SentenceKinds[k],
             has_time |-> "time" \in SentenceFields[SentenceKinds[k]],
             time |-> time_str(corrected_now(at)),
             sampled_at |-> at]]

\* for nmea in sentences: write to the pipe, print, time.sleep(0.2)
timed_writes(batch, first_write, pause, pattern) ==
    [k \in 1..Len(batch) |->
        LET at == AddMicros(first_write, (k - 1) * pause)
        IN  [data |-> batch[k], ok |-> pattern[k] = "ok", written_at |-> at,
             clock_at_write |-> time_str(corrected_now(at))]]

InitBatch ==
    /\ variant = "fallback"
    /\ now \in BatchStarts
    /\ ntp_offset \in {0 - 2, 0, 3}
    /\ ntp_last_sync = 0
    /\ ntp_available \in BOOLEAN
    /\ sync_log = NoSync
    /\ call = Idle(Clock)
    /\ pc = "inner"
    /\ last_gps_data_time = 0
    /\ fallback_active = TRUE
    /\ last_ntp_sync_time = 0
    /\ ev = << >>
    /\ silence = << >>
    /\ pnt = << >>
    /\ total_sent = 0
    /\ emitted = [op |-> "none"]
    /\ proc = NoProcess

\* if fallback_active: sentences = get_starlink_sentences(); then each
\* sentence is written and followed by a pause
FallbackBatchTimed ==
    /\ pc = "inner" /\ fallback_active
    /\ \E s \in BatchStarts : now >= s /\ now < s + MaxBatchSeconds
    /\ \E us \in BatchMicros, build \in BuildMicros, excess \in PauseExcess,
          pattern \in WritePatterns :
          LET start == Instant(now, us)
              batch == timed_sentences(start, build)
              first_write == AddMicros(start, Len(SentenceKinds) * build)
              pause == SENTENCE_PAUSE_US + excess
              writes == timed_writes(batch, first_write, pause, pattern)
              finish == AddMicros(first_write, Len(SentenceKinds) * pause)
          IN  /\ emitted' = [op |-> "timed_batch", writes |-> writes]
              /\ now' = finish.sec
    /\ UNCHANGED << proc, variant, clockVars, sync_log, call, failoverVars, pnt, total_sent >>

NextBatch == FallbackBatchTimed

SpecBatch == InitBatch /\ [][NextBatch]_vars

\* t1 <= t2 for two time fields
TimeStrNotAfter(t1, t2) ==
    \/ t1.second_of_day < t2.second_of_day
    \/ t1.second_of_day = t2.second_of_day /\ t1.hundredths <= t2.hundredths

\* C23: in FALLBACK the time field of each sentence of a batch is the
\* corrected time current when that sentence is written to the sink, the
\* batch being written with a pause between sentences, and the time fields
\* of a batch are non-decreasing in emission order.
C23_TimeCurrentAtEmission ==
    emitted.op = "timed_batch" =>
        /\ \A k \in 1..Len(emitted.writes) :
              (emitted.writes[k].ok /\ emitted.writes[k].data.has_time) =>
                  emitted.writes[k].data.time = emitted.writes[k].clock_at_write
        /\ \A j \in 1..Len(emitted.writes), k \in 1..Len(emitted.writes) :
              (j < k /\ emitted.writes[j].data.has_time /\ emitted.writes[k].data.has_time) =>
                  TimeStrNotAfter(emitted.writes[j].data.time, emitted.writes[k].data.time)

-----------------------------------------------------------------------------
(* SpecRun: the process of each program from the installation of the        *)
(* signal handlers on: where main() is, which transport handles are open,   *)
(* and what a SIGINT or SIGTERM does there.  What is polled and sent is     *)
(* followed by SpecFix, the failover by Spec.                               *)

\* the process is followed for RunTicks short waits and MaxSignals signals
RunTicks == 4
MaxSignals == 2

\* the handle main() opens before its loop and never rebinds
Link(v) ==
    IF v = "mavlink" THEN {"autopilot_link"}
    ELSE IF v = "udp" THEN {"udp_socket"}
    ELSE {}

\* the handles bound by a with statement: the serial device and the pipe
ScopedHandles == {"serial", "pipe"}

\* the with statements main() of the fallback bridge is inside of at a place
Held(v, place) ==
    IF v # "fallback" THEN {}
    ELSE IF place \in {"read", "sleep"} THEN {"serial"}
    ELSE IF place \in {"relay", "batch"} THEN {"serial", "pipe"}
    ELSE IF place = "device_fallback" THEN {"pipe"}
    ELSE {}

\* main() moves to a place: the with statements left close their handles
Enter(p, v, place) == [p EXCEPT !.handles = (@ \ ScopedHandles) \cup Held(v, place)]

\* cleanup(sig, frame) up to sys.exit(0): the udp program closes its socket,
\* the fallback bridge removes the pipe's path, the mavlink program prints
cleanup(v, p, place) ==
    [p EXCEPT !.signal_at = place,
              !.handles = IF v = "udp" THEN @ \ {"udp_socket"} ELSE @,
              !.pipe_path = IF v = "fallback" THEN FALSE ELSE @,
              !.cleanups = @ + 1]

\* SystemExit (or sys.exit(1)) leaves main(): the with statements close
\* their handles on the way out, the interpreter exits
Exit(p, by) ==
    [p EXCEPT !.status = "exited", !.exit_by = by, !.handles = @ \ ScopedHandles]

\* if USE_NTP and current_time - <last sync> >= NTP_UPDATE_INTERVAL: the
\* fallback bridge keeps the time of the last attempt in a local, the other
\* two in the global ntp_last_sync
SyncIsDue(v, t) ==
    /\ USE_NTP
    /\ IF v = "fallback" THEN t - last_ntp_sync_time >= NTP_UPDATE_INTERVAL
       ELSE t - ntp_last_sync >= NTP_UPDATE_INTERVAL

\* sync_ntp_time() called by main() at time t, and the assignment after it
RunSync(v, t, in) ==
    LET r == sync_ntp_time(v, Clock, t, in[1], in[2], in[3])
    IN  /\ ntp_offset' = r.clock.ntp_offset
        /\ ntp_available' = r.clock.ntp_available
        /\ ntp_last_sync' = IF v = "fallback" THEN r.clock.ntp_last_sync ELSE t
        /\ last_ntp_sync_time' = IF v = "fallback" THEN t ELSE last_ntp_sync_time
        /\ sync_log' = Logged(sync_log, t, r.how)
        /\ call' = SyncCall(sync_log, Clock, t, r.how)

\* where main() goes on after sync_ntp_time()
AfterSync(v, place) ==
    IF place = "init_sync" THEN "loop_top"
    ELSE IF v = "fallback" THEN "open" ELSE "poll"

\* the points of the code at a place where a signal may find the process:
\* "plain" code, the "probe" of check_ntp_server(), the first and the second
\* offset query of sync_ntp_time()
Points(v, place, c, t) ==
    IF /\ place \in {"init_sync", "loop_top"}
       /\ place = "loop_top" => SyncIsDue(v, t)
       /\ USE_NTP /\ ~RateLimited(c, t)
    THEN {"plain", "probe", "tool1", "tool2"}
    ELSE {"plain"}

\* SystemExit raised at the point is caught by a handler around it:
\* check_ntp_server() wraps the probe in try/except: in all three programs,
\* the mavlink sync_ntp_time() wraps each query in try/.../except: pass.
\* "except Exception" and the named exception classes let SystemExit pass
Swallows(v, point) ==
    \/ point = "probe"
    \/ v = "mavlink" /\ point \in {"tool1", "tool2"}

\* what sync_ntp_time() goes on with after the handler swallowed SystemExit:
\* the interrupted tool counts as one that raised
SwallowInputs(v, point) ==
    IF point = "probe" THEN {<< Raised("oserror"), NotRun, NotRun >>}
    ELSE IF point = "tool1"
    THEN {<< Ran(0, << >>), Raised("oserror"), r2 >> : r2 \in SecondRuns(v, Raised("oserror"))}
    ELSE {<< Ran(0, << >>), r1, Raised("oserror") >> :
             r1 \in {r \in ToolResults : NotRun \notin SecondRuns(v, r)}}

InitRun ==
    /\ variant \in Variants
    /\ now = StartTime
    /\ ntp_offset = 0
    /\ ntp_last_sync = 0
    /\ ntp_available = FALSE
    /\ sync_log = NoSync
    /\ call = Idle(Clock)
    /\ pc = IF variant = "fallback" THEN "init_sync" ELSE "connect"
    /\ last_gps_data_time = 0
    /\ fallback_active = FALSE
    /\ last_ntp_sync_time = 0
    /\ ev = << >>
    /\ silence = << >>
    /\ pnt = << >>
    /\ total_sent = 0
    /\ emitted = << >>
    /\ proc = [status |-> "running", handles |-> {}, pipe_path |-> variant = "fallback",
               cleanups |-> 0, signal_at |-> "none", exit_by |-> "none"]

Running == proc.status = "running"

\* mavlink: mavutil.mavlink_connection() and wait_heartbeat(); udp:
\* socket.socket(); on an exception sys.exit(1)
Connect ==
    /\ Running /\ pc = "connect"
    /\ \E ok \in BOOLEAN :
          IF ok
          THEN /\ proc' = [proc EXCEPT !.handles = @ \cup Link(variant)]
               /\ pc' = "init_sync"
          ELSE /\ proc' = Exit(proc, "connect_error")
               /\ pc' = "exited"
    /\ UNCHANGED << encoderVars, variant, now, clockVars, sync_log, call,
                    last_gps_data_time, fallback_active, last_ntp_sync_time, ev, silence >>

\* the sync_ntp_time() before the loop, and the time taken after it
InitialSync ==
    /\ Running /\ pc = "init_sync"
    /\ \E in \in SyncInputs(variant, Clock, now) : RunSync(variant, now, in)
    /\ pc' = AfterSync(variant, pc)
    /\ UNCHANGED << proc, encoderVars, variant, now, last_gps_data_time, fallback_active,
                    ev, silence >>

\* the top of the loop: the periodic sync when it is due
LoopTop ==
    /\ Running /\ pc = "loop_top"
    /\ IF SyncIsDue(variant, now)
       THEN \E in \in SyncInputs(variant, Clock, now) : RunSync(variant, now, in)
       ELSE /\ call' = Idle(Clock)
            /\ UNCHANGED << clockVars, sync_log, last_ntp_sync_time >>
    /\ pc' = AfterSync(variant, pc)
    /\ UNCHANGED << proc, encoderVars, variant, now, last_gps_data_time, fallback_active,
                    ev, silence >>

\* fallback bridge: with serial.Serial(...) as ser, or SerialException
OpenDevice ==
    /\ Running /\ pc = "open"
    /\ \E opened \in BOOLEAN :
          IF opened
          THEN /\ pc' = "read"
               /\ proc' = Enter(proc, variant, "read")
               /\ UNCHANGED fallback_active
          ELSE /\ pc' = "device_fallback"
               /\ proc' = Enter(proc, variant, "device_fallback")
               /\ fallback_active' = HandleSerialError(fallback_active)
    /\ UNCHANGED << encoderVars, variant, now, clockVars, sync_log, call,
                    last_gps_data_time, last_ntp_sync_time, ev, silence >>

\* fallback bridge: ser.readline(): SerialException, or a line that is
\* recognized or not, and the lock-loss test
ReadDevice ==
    /\ Running /\ pc = "read"
    /\ \/ /\ pc' = "device_fallback"
          /\ proc' = Enter(proc, variant, "device_fallback")
          /\ fallback_active' = HandleSerialError(fallback_active)
          /\ UNCHANGED last_gps_data_time
       \/ \E rec \in BOOLEAN :
             LET last == IF rec THEN now ELSE last_gps_data_time
                 resumed == IF rec THEN FALSE ELSE fallback_active
                 active == IF ~resumed /\ LockLost(now, last) THEN TRUE ELSE resumed
                 place == IF rec THEN "relay" ELSE IF active THEN "batch" ELSE "sleep"
             IN  /\ last_gps_data_time' = last
                 /\ fallback_active' = active
                 /\ pc' = place
                 /\ proc' = Enter(proc, variant, place)
    /\ UNCHANGED << encoderVars, variant, now, clockVars, sync_log, call,
                    last_ntp_sync_time, ev, silence >>

\* fallback bridge: the recognized line has been written to the pipe
RelayLine ==
    /\ Running /\ pc = "relay"
    /\ pc' = "sleep"
    /\ proc' = Enter(proc, variant, "sleep")
    /\ UNCHANGED << encoderVars, variant, now, clockVars, sync_log, call,
                    last_gps_data_time, fallback_active, last_ntp_sync_time, ev, silence >>

\* fallback bridge: the batch has been written, with its pauses
BatchWritten ==
    /\ Running /\ pc = "batch"
    /\ \E d \in Elapse :
          /\ now + d <= StartTime + RunTicks * ShortWait
          /\ now' = now + d
    /\ pc' = "read"
    /\ proc' = Enter(proc, variant, "read")
    /\ UNCHANGED << encoderVars, variant, clockVars, sync_log, call,
                    last_gps_data_time, fallback_active, last_ntp_sync_time, ev, silence >>

\* fallback bridge: one cycle of the loop of the SerialException handler
DeviceFallbackLoop ==
    /\ Running /\ pc = "device_fallback"
    /\ \E d \in Elapse, present \in BOOLEAN :
          /\ now + d <= StartTime + RunTicks * ShortWait
          /\ now' = now + d
          /\ fallback_active' = ~present
          /\ pc' = IF present THEN "loop_top" ELSE "device_fallback"
          /\ proc' = Enter(proc, variant, IF present THEN "loop_top" ELSE "device_fallback")
    /\ UNCHANGED << encoderVars, variant, clockVars, sync_log, call,
                    last_gps_data_time, last_ntp_sync_time, ev, silence >>

\* mavlink, udp: get_starlink_pnt() has returned
PollDish ==
    /\ Running /\ pc = "poll"
    /\ pc' = "send"
    /\ UNCHANGED << proc, encoderVars, variant, now, clockVars, sync_log, call,
                    last_gps_data_time, fallback_active, last_ntp_sync_time, ev, silence >>

\* mavlink, udp: the record or the sentences have been sent and printed
SendFix ==
    /\ Running /\ pc = "send"
    /\ pc' = "sleep"
    /\ UNCHANGED << proc, encoderVars, variant, now, clockVars, sync_log, call,
                    last_gps_data_time, fallback_active, last_ntp_sync_time, ev, silence >>

\* time.sleep(UPDATE_INTERVAL), and back to the top of the (inner) loop
Sleep ==
    /\ Running /\ pc = "sleep"
    /\ \E d \in Elapse :
          /\ now + d <= StartTime + RunTicks * ShortWait
          /\ now' = now + d
    /\ pc' = IF variant = "fallback" THEN "read" ELSE "loop_top"
    /\ proc' = Enter(proc, variant, IF variant = "fallback" THEN "read" ELSE "loop_top")
    /\ UNCHANGED << encoderVars, variant, clockVars, sync_log, call,
                    last_gps_data_time, fallback_active, last_ntp_sync_time, ev, silence >>

\* SIGINT or SIGTERM is delivered: cleanup() runs and raises SystemExit at
\* the point the process was at; where a handler swallows it the
\* interrupted function goes on, else the process exits
Signal ==
    /\ Running /\ proc.cleanups < MaxSignals
    /\ \E point \in Points(variant, pc, Clock, now) :
          IF Swallows(variant, point)
          THEN /\ proc' = cleanup(variant, proc, pc)
               /\ \E in \in SwallowInputs(variant, point) : RunSync(variant, now, in)
               /\ pc' = AfterSync(variant, pc)
          ELSE /\ proc' = Exit(cleanup(variant, proc, pc), "signal")
               /\ pc' = "exited"
               /\ UNCHANGED << clockVars, sync_log, call, last_ntp_sync_time >>
    /\ UNCHANGED << encoderVars, variant, now, last_gps_data_time, fallback_active, ev, silence >>

NextRun ==
    \/ Connect
    \/ InitialSync
    \/ LoopTop
    \/ OpenDevice
    \/ ReadDevice
    \/ RelayLine
    \/ BatchWritten
    \/ DeviceFallbackLoop
    \/ PollDish
    \/ SendFix
    \/ Sleep
    \/ Signal

SpecRun == InitRun /\ [][NextRun]_vars

\* C25: when a shutdown signal is handled, every transport handle the
\* process has open at that moment (the autopilot link, the UDP socket, the
\* serial device, the named pipe) is released before the process exits.
C25_HandlesReleasedOnShutdown ==
    (proc.status = "exited" /\ proc.exit_by = "signal") => proc.handles = {}

\* C27: a shutdown signal delivered at any point of the main loop leads to
\* process exit: the SystemExit raised by the cleanup handler is never
\* swallowed by an exception handler of the interrupted code, also not while
\* the NTP reachability probe or the offset query runs.
C27_SignalLeadsToExit ==
    proc.signal_at \notin {"none", "connect", "init_sync"} => proc.status = "exited"

-----------------------------------------------------------------------------
(* SpecCoord: nmea_lat() and nmea_lon() of the two NMEA encoders.           *)
(* A coordinate is a whole number of CoordUnits (1e-7 degree), minutes are  *)
(* in units of 1/10000 minute, as the field prints them.                    *)

CoordUnits == 10000000
MINUTES_PER_DEGREE == 60

Abs(x) == IF x < 0 THEN 0 - x ELSE x

\* x / y rounded to the nearest whole number, halves to even (x >= 0, y > 0)
RoundDiv(x, y) ==
    LET q == x \div y
        twice == 2 * (x % y)
    IN  IF twice > y \/ (twice = y /\ q % 2 = 1) THEN q + 1 ELSE q

\* deg = int(abs(val))
degrees(val) == Abs(val) \div CoordUnits

\* minf = (abs(val) - deg) * 60, printed with f"{minf:07.4f}": rounded to
\* four decimals
minutes_field(val) ==
    RoundDiv((Abs(val) - degrees(val) * CoordUnits) * MINUTES_PER_DEGREE,
             CoordUnits \div 10000)

\* nmea_lat(val): f"{deg:02d}{minf:07.4f},{hemi}"
nmea_lat(val) ==
    [deg |-> degrees(val), deg_width |-> 2, minutes |-> minutes_field(val),
     hemi |-> IF val >= 0 THEN "N" ELSE "S"]

\* nmea_lon(val): f"{deg:03d}{minf:07.4f},{hemi}"
nmea_lon(val) ==
    [deg |-> degrees(val), deg_width |-> 3, minutes |-> minutes_field(val),
     hemi |-> IF val >= 0 THEN "E" ELSE "W"]

\* fractions of a degree, in CoordUnits: none, the least, a half, and the
\* last ones below the next whole degree
Fractions == {0, 1, 5000000, 9999991, 9999992, 9999999}
Signed(x) == {x, 0 - x}
Latitudes ==
    UNION {Signed(d * CoordUnits + f) : d \in {0, 47, 89}, f \in Fractions}
        \cup Signed(90 * CoordUnits)
Longitudes ==
    UNION {Signed(d * CoordUnits + f) : d \in {0, 122, 179}, f \in Fractions}
        \cup Signed(180 * CoordUnits)

InitCoord ==
    /\ variant \in {"fallback", "udp"}
    /\ now = StartTime
    /\ ntp_offset = 0
    /\ ntp_last_sync = 0
    /\ ntp_available = FALSE
    /\ sync_log = NoSync
    /\ call = Idle(Clock)
    /\ pc = "none"
    /\ last_gps_data_time = 0
    /\ fallback_active = FALSE
    /\ last_ntp_sync_time = 0
    /\ ev = << >>
    /\ silence = << >>
    /\ pnt = << >>
    /\ total_sent = 0
    /\ emitted = [op |-> "none"]
    /\ proc = NoProcess

\* lat_str = nmea_lat(lat); lon_str = nmea_lon(lon)
RenderCoordinates ==
    /\ \E lat \in Latitudes, lon \in Longitudes :
          emitted' = [op |-> "coordinates", lat |-> lat, lon |-> lon,
                      lat_str |-> nmea_lat(lat), lon_str |-> nmea_lon(lon)]
    /\ UNCHANGED << proc, variant, now, clockVars, sync_log, call, failoverVars, pnt, total_sent >>

NextCoord == RenderCoordinates

SpecCoord == InitCoord /\ [][NextCoord]_vars

\* C28: the minutes part of every latitude and longitude field is strictly
\* below 60.0000 for every coordinate in range, also when the fraction of a
\* degree is within rounding distance of the next whole degree; the degrees
\* are the truncated absolute value and the hemisphere letter follows the
\* sign.
C28_MinutesBelowSixty ==
    emitted.op = "coordinates" =>
        /\ emitted.lat_str.minutes < 600000
        /\ emitted.lon_str.minutes < 600000
        /\ emitted.lat_str.deg * 10000000 <= Abs(emitted.lat)
        /\ Abs(emitted.lat) < (emitted.lat_str.deg + 1) * 10000000
        /\ emitted.lon_str.deg * 10000000 <= Abs(emitted.lon)
        /\ Abs(emitted.lon) < (emitted.lon_str.deg + 1) * 10000000
        /\ emitted.lat_str.hemi = (IF emitted.lat >= 0 THEN "N" ELSE "S")
        /\ emitted.lon_str.hemi = (IF emitted.lon >= 0 THEN "E" ELSE "W")

=============================================================================
